---- MODULE Spec2Model ----
(***************************************************************************)
(* The SecurityHome screen (frontend/app/security/home.tsx) as a state     *)
(* machine.  Every `await` of the source is a point where the event loop   *)
(* may run another handler, so every async function is cut into one action *)
(* per continuation.  Device storage (utils/auth) and the backend are the  *)
(* environment: a storage read takes its value in a step of its own, a     *)
(* request is answered in a step of its own.                               *)
(***************************************************************************)
EXTENDS Integers, Sequences, FiniteSets, TLC

\* ---------------------------------------------------------------- bounds
PollSlots   == 1    \* timer-started loadNearbyData executions in flight at once
MaxItems    == 4    \* longest list a nearby endpoint answers with

\* ------------------------------------------------------ program constants
SliceEnd      == 3     \* nearbyPanics.slice(0, 3), nearbyReports.slice(0, 3)
DefaultRadius == 10    \* useState(10), radius_km || 10

\* ------------------------------------------------------------- JS values
Undef   == -1                      \* an absent (undefined) numeric field
NoToken == "none"
Tok     == "tok"
NoRole  == "none"
Roles   == {"security", "civil"}

Truthy(n) == n # Undef /\ n # 0    \* truthiness of an optional number

Min(a, b) == IF a < b THEN a ELSE b

\* a response body that should be an array: null/undefined, or the array
NullBody    == [null |-> TRUE, items |-> <<>>]
ArrBody(s)  == [null |-> FALSE, items |-> s]

\* `data || []` (lines 116, 117): an array, even the empty one, is truthy
OrEmpty(b) == IF b.null THEN <<>> ELSE b.items

\* the n-th item the reports / panics endpoint lists (ids, not in id order)
ReportAt(n) == 10 + ((n * 3) % 7)
PanicAt(n)  == 20 + ((n * 5) % 7)

ReportBodies == {NullBody} \cup {ArrBody([n \in 1..k |-> ReportAt(n)]) : k \in 0..MaxItems}
PanicBodies  == {NullBody} \cup {ArrBody([n \in 1..k |-> PanicAt(n)]) : k \in 0..MaxItems}

\* team-location response body: null, or { latitude, longitude, radius_km }
NullLoc == [null |-> TRUE, latitude |-> Undef, longitude |-> Undef, radius_km |-> Undef]
Loc(la, lo, r) == [null |-> FALSE, latitude |-> la, longitude |-> lo, radius_km |-> r]
LocBodies == {NullLoc} \cup {Loc(la, lo, r) : la \in {0, 1}, lo \in {0, 1}, r \in {Undef, 5}}

\* characters and strings (sequences of characters)
Whitespace == {" ", "\t"}
Chars      == {" ", "\t", "a"}

\* String.prototype.trim (lines 128, 143)
RECURSIVE TrimStart(_)
TrimStart(s) == IF s # <<>> /\ Head(s) \in Whitespace THEN TrimStart(Tail(s)) ELSE s
RECURSIVE TrimEnd(_)
TrimEnd(s) == IF s # <<>> /\ s[Len(s)] \in Whitespace
              THEN TrimEnd(SubSeq(s, 1, Len(s) - 1)) ELSE s
Trim(s) == TrimEnd(TrimStart(s))

\* full_name.split(' ')[0] (line 70): the text before the first space
RECURSIVE FirstWord(_)
FirstWord(s) == IF s = <<>> \/ Head(s) = " " THEN <<>> ELSE <<Head(s)>> \o FirstWord(Tail(s))

\* profile response body: full_name absent (<<>> is the empty string, falsy) or a name
NoFullName == <<>>
FullNames  == {NoFullName, <<"a", " ", "a">>}
DefaultAgentName == <<"A", "g", "e", "n", "t">>

\* faulty variant: the end index taken as inclusive
Slice_EndInclusive(s, start, end) == SubSeq(s, start + 1, Min(end + 1, Len(s)))

\* Array.prototype.slice(start, end) for 0 <= start, end (lines 291, 323)
Slice(s, start, end) == SubSeq(s, start + 1, Min(end, Len(s)))

\* how a request ends: a 2xx response, an error response, or no response
Outcomes == {"ok", "401", "500", "timeout"}
Failures == Outcomes \ {"ok"}
\* faulty variant: any error status taken for an expired session
IsStatus401_AnyStatus(o) == o \in {"401", "500"}

\* error?.response?.status === 401 (lines 92, 120, 157)
IsStatus401(o) == o = "401"

\* ----------------------------------------------------------------- state
VARIABLES
  storedToken,    \* device storage: the auth token (utils/auth)
  storedRole,     \* device storage: the role of the user metadata
  tokenAtMount,   \* the token that was stored when the screen mounted
  phase,          \* "constructed", "mounted" (interval set), "unmounted"
  pcInit,         \* position of initializeScreen
  initRead,       \* what its pending storage read returned
  loading, agentName, teamLocation, radiusKm,
  nearbyReports, nearbyPanics, searchTerm, searchLoading,   \* useState, lines 14-21
  nearby,         \* executions of loadNearbyData: 0 is initializeScreen's, 1.. the timer's
  pcSearch, searchRead, searchArg,                          \* handleSearch
  pcLogout,                                                 \* handleLogout
  ev              \* the last step: its name, what it called, what it was answered

store  == <<storedToken, storedRole, tokenAtMount>>
view   == <<loading, agentName, teamLocation, radiusKm,
            nearbyReports, nearbyPanics, searchTerm, searchLoading>>
lists  == <<nearbyReports, nearbyPanics>>
search == <<pcSearch, searchRead, searchArg>>
logout == <<pcLogout>>
vars   == <<store, phase, pcInit, initRead, view, nearby, search, logout, ev>>

InitInst  == 0
PollInsts == 1..PollSlots
Insts     == {InitInst} \cup PollInsts

\* older: the executions that were running when this one was called; overtaken: one
\* of those called after this one has set the lists while this one was running
IdleInst == [pc |-> "idle", tok |-> NoToken, rep |-> "-", pan |-> "-",
             older |-> {}, overtaken |-> FALSE]

\* the record of a step: op names it, who is the loadNearbyData execution (or -1),
\* res is the outcome of the request it answers, fx the calls it makes
\* For a step of handleSearch that a response reaches, body and detail are what the
\* response carried, param the userData parameter of router.push and msg the text of
\* the alert.
Ev(op, who, res, fx, rb, pb) ==
  [op |-> op, who |-> who, res |-> res, fx |-> fx, reports |-> rb, panics |-> pb,
   body |-> [null |-> TRUE, user_id |-> Undef], detail |-> "", param |-> <<>>, msg |-> ""]
Emit(op, fx)        == ev' = Ev(op, -1, "-", fx, NullBody, NullBody)
EmitRes(op, res, fx) == ev' = Ev(op, -1, res, fx, NullBody, NullBody)

Init ==
  /\ storedToken \in {NoToken, Tok}
  /\ storedRole \in Roles
  /\ tokenAtMount = storedToken
  /\ phase = "constructed"
  /\ pcInit = "idle"
  /\ initRead = "-"
  /\ loading = TRUE
  /\ agentName = DefaultAgentName
  /\ teamLocation = NullLoc
  /\ radiusKm = DefaultRadius
  /\ nearbyReports = <<>>
  /\ nearbyPanics = <<>>
  /\ searchTerm = <<>>
  /\ searchLoading = FALSE
  /\ nearby = [i \in Insts |-> IdleInst]
  /\ pcSearch = "idle"
  /\ searchRead = "-"
  /\ searchArg = <<>>
  /\ pcLogout = "idle"
  /\ ev = Ev("construct", -1, "-", {}, NullBody, NullBody)

\* ------------------------------------------------------ utils/auth (storage)
\* getAuthToken resolves with the token the storage holds when it is read
getAuthToken == storedToken
\* getUserMetadata resolves with the stored metadata; this is its role
getUserMetadata == storedRole
\* clearAuthData removes the token and the metadata
clearAuthData ==
  /\ storedToken' = NoToken
  /\ storedRole' = NoRole
  /\ UNCHANGED tokenAtMount


\* ------------------------------------------------- loadNearbyData, 99-125
StartedInst == [IdleInst EXCEPT !.pc = "tokCall"]

\* line 99: execution i is called, beside the executions still running
Called(i) ==
  [nearby EXCEPT ![i] = [StartedInst EXCEPT
                           !.older = {j \in Insts \ {i} : nearby[j].pc # "idle"}]]

\* execution i returns (lines 102, 124) without having set the lists
Returned(i) ==
  [j \in Insts |-> IF j = i THEN IdleInst
                   ELSE [nearby[j] EXCEPT !.older = @ \ {i}]]

\* execution i returns having set the lists (lines 116-117): the executions still
\* running that were called before it are overtaken
ReturnedStored(i) ==
  [j \in Insts |-> IF j = i THEN IdleInst
                   ELSE [nearby[j] EXCEPT !.older = @ \ {i},
                                          !.overtaken = @ \/ j \in nearby[i].older]]

\* faulty variant: line 57 left out
FinishInit_NoReset(i) ==
  IF i = InitInst
  THEN pcInit' = "done" /\ UNCHANGED loading
  ELSE UNCHANGED <<pcInit, loading>>

\* the execution initializeScreen awaits (line 56) resumes it at line 57
FinishInit(i) ==
  IF i = InitInst
  THEN pcInit' = "done" /\ loading' = FALSE
  ELSE UNCHANGED <<pcInit, loading>>
FinishFx(i) == IF i = InitInst THEN {"set:loading"} ELSE {}

\* line 101: the storage answers getAuthToken
loadNearbyData_read(i) ==
  /\ nearby[i].pc = "tokCall"
  /\ nearby' = [nearby EXCEPT ![i].pc = "tokGot", ![i].tok = getAuthToken]
  /\ ev' = Ev("nearby:read", i, "-", {}, NullBody, NullBody)
  /\ UNCHANGED <<store, phase, pcInit, initRead, view, search, logout>>

\* faulty variant: the token check left out
HasToken_Always(t) == TRUE

\* line 102: without a token the loader returns before any request
HasToken(t) == t # NoToken

\* lines 102-114: return without a token, else issue both requests
loadNearbyData_afterToken(i) ==
  /\ nearby[i].pc = "tokGot"
  /\ IF HasToken(nearby[i].tok)
     THEN /\ nearby' = [nearby EXCEPT ![i].pc = "req", ![i].rep = "pending",
                                      ![i].pan = "pending"]
          /\ ev' = Ev("nearby:request", i, "-", {"req:reports", "req:panics"},
                      NullBody, NullBody)
          /\ UNCHANGED <<pcInit, loading>>
     ELSE /\ nearby' = Returned(i)
          /\ ev' = Ev("nearby:noToken", i, "-", FinishFx(i), NullBody, NullBody)
          /\ FinishInit(i)
  /\ UNCHANGED <<store, phase, initRead, agentName, teamLocation, radiusKm, lists,
                 searchTerm, searchLoading, search, logout>>

\* lines 118-124: the catch block, entered by the first request that fails
loadNearbyData_catch(i, o) ==
  IF IsStatus401(o)
  THEN /\ nearby' = [nearby EXCEPT ![i].pc = "clearCall", ![i].rep = "-", ![i].pan = "-"]
       /\ ev' = Ev("nearby:fail", i, o, {"clearAuthData"}, NullBody, NullBody)
       /\ UNCHANGED <<pcInit, loading>>
  ELSE /\ nearby' = Returned(i)
       /\ ev' = Ev("nearby:fail", i, o, FinishFx(i), NullBody, NullBody)
       /\ FinishInit(i)

\* faulty variant: only the reports list is set
loadNearbyData_store_reportsOnly(i, rb, pb) ==
  /\ nearbyReports' = OrEmpty(rb)
  /\ nearbyPanics' = nearbyPanics
  /\ nearby' = ReturnedStored(i)
  /\ ev' = Ev("nearby:ok", i, "ok",
              {"set:nearbyReports", "set:nearbyPanics"} \cup FinishFx(i), rb, pb)
  /\ FinishInit(i)

\* lines 115-117: both requests answered, both lists set
loadNearbyData_store(i, rb, pb) ==
  /\ nearbyReports' = OrEmpty(rb)
  /\ nearbyPanics' = OrEmpty(pb)
  /\ nearby' = ReturnedStored(i)
  /\ ev' = Ev("nearby:ok", i, "ok",
              {"set:nearbyReports", "set:nearbyPanics"} \cup FinishFx(i), rb, pb)
  /\ FinishInit(i)

\* lines 105-114, 118-124: one of the two requests (which = "rep" or "pan") is answered
\* with outcome o while Promise.all is still pending: a success is kept until the
\* other request is answered, the first failure rejects Promise.all (the other
\* request's answer is then ignored)
loadNearbyData_response(i, which, o) ==
  /\ nearby[i].pc = "req"
  /\ nearby[i][which] = "pending"
  /\ LET other == IF which = "rep" THEN "pan" ELSE "rep" IN
     IF o = "ok"
     THEN /\ nearby[i][other] = "pending"
          /\ nearby' = [nearby EXCEPT ![i][which] = "ok"]
          /\ ev' = Ev("nearby:partial", i, "ok", {}, NullBody, NullBody)
          /\ UNCHANGED <<pcInit, loading>>
     ELSE loadNearbyData_catch(i, o)
  /\ UNCHANGED <<store, phase, initRead, agentName, teamLocation, radiusKm, lists,
                 searchTerm, searchLoading, search, logout>>

\* lines 105-117: the second of the two requests is answered with success, after the
\* first was: Promise.all resolves with the two bodies rb, pb
loadNearbyData_resolved(i, rb, pb) ==
  /\ nearby[i].pc = "req"
  /\ \/ nearby[i].rep = "ok" /\ nearby[i].pan = "pending"
     \/ nearby[i].rep = "pending" /\ nearby[i].pan = "ok"
  /\ loadNearbyData_store(i, rb, pb)
  /\ UNCHANGED <<store, phase, initRead, agentName, teamLocation, radiusKm,
                 searchTerm, searchLoading, search, logout>>

\* line 121: the storage carries out clearAuthData
loadNearbyData_cleared(i) ==
  /\ nearby[i].pc = "clearCall"
  /\ clearAuthData
  /\ nearby' = [nearby EXCEPT ![i].pc = "cleared"]
  /\ ev' = Ev("nearby:cleared", i, "-", {}, NullBody, NullBody)
  /\ UNCHANGED <<phase, pcInit, initRead, view, search, logout>>

\* line 122 (and 57 for initializeScreen's execution)
loadNearbyData_afterClear(i) ==
  /\ nearby[i].pc = "cleared"
  /\ nearby' = Returned(i)
  /\ ev' = Ev("nearby:afterClear", i, "-", {"nav:login"} \cup FinishFx(i),
              NullBody, NullBody)
  /\ FinishInit(i)
  /\ UNCHANGED <<store, phase, initRead, agentName, teamLocation, radiusKm, lists,
                 searchTerm, searchLoading, search, logout>>

\* --------------------------------------------------------- useEffect, 23-27
\* line 24-25: initializeScreen runs to its first await, the interval is set
Mount ==
  /\ phase = "constructed"
  /\ phase' = "mounted"
  /\ loading' = TRUE
  /\ pcInit' = "tokCall"
  /\ Emit("mount", {"set:loading"})
  /\ UNCHANGED <<store, initRead, agentName, teamLocation, radiusKm, lists,
                 searchTerm, searchLoading, nearby, search, logout>>

\* faulty variant: a failed fetch holds the next tick back
Tick_NotAfterFailure(i) ==
  /\ phase = "mounted"
  /\ ev.op # "nearby:fail"
  /\ nearby[i].pc = "idle"
  /\ \A j \in PollInsts : j < i => nearby[j].pc # "idle"
  /\ nearby' = Called(i)
  /\ ev' = Ev("tick", i, "-", {"call:loadNearbyData"}, NullBody, NullBody)
  /\ UNCHANGED <<store, phase, pcInit, initRead, view, search, logout>>

\* line 25: the interval fires and calls loadNearbyData
Tick(i) ==
  /\ phase = "mounted"
  /\ nearby[i].pc = "idle"
  /\ \A j \in PollInsts : j < i => nearby[j].pc # "idle"
  /\ nearby' = Called(i)
  /\ ev' = Ev("tick", i, "-", {"call:loadNearbyData"}, NullBody, NullBody)
  /\ UNCHANGED <<store, phase, pcInit, initRead, view, search, logout>>

\* line 26: the cleanup clears the interval
Unmount ==
  /\ phase = "mounted"
  /\ phase' = "unmounted"
  /\ Emit("unmount", {})
  /\ UNCHANGED <<store, pcInit, initRead, view, nearby, search, logout>>


\* --------------------------------------------------- initializeScreen, 29-58
\* line 56: initializeScreen calls loadNearbyData and awaits it
CallLoadNearbyData ==
  /\ nearby' = Called(InitInst)
  /\ pcInit' = "nearby"

\* lines 33, 43, 62, 80: the storage answers the pending read
initializeScreen_read ==
  /\ pcInit \in {"tokCall", "metaCall", "profTokCall", "teamTokCall"}
  /\ initRead' = IF pcInit = "metaCall" THEN getUserMetadata ELSE getAuthToken
  /\ pcInit' = CASE pcInit = "tokCall"     -> "tokGot"
                 [] pcInit = "metaCall"    -> "metaGot"
                 [] pcInit = "profTokCall" -> "profTokGot"
                 [] pcInit = "teamTokCall" -> "teamTokGot"
  /\ Emit("init:read", {})
  /\ UNCHANGED <<store, phase, view, nearby, search, logout>>

\* lines 33-43: no token: redirect and return; else read the metadata
initializeScreen_afterToken ==
  /\ pcInit = "tokGot"
  /\ IF HasToken(initRead)
     THEN pcInit' = "metaCall" /\ Emit("init:token", {})
     ELSE pcInit' = "redirected" /\ Emit("init:noToken", {"nav:login"})
  /\ initRead' = "-"
  /\ UNCHANGED <<store, phase, view, nearby, search, logout>>

\* faulty variant: the role is not compared
RoleDenied_Never(role) == FALSE

\* line 46: metadata.role !== 'security'
RoleDenied(role) == role # "security"

\* lines 43-54, 62: wrong role: alert, redirect and return; else loadAgentProfile
initializeScreen_afterMetadata ==
  /\ pcInit = "metaGot"
  /\ IF RoleDenied(initRead)
     THEN pcInit' = "denied" /\ Emit("init:denied", {"alert:denied", "nav:login"})
     ELSE pcInit' = "profTokCall" /\ Emit("init:role", {"call:loadAgentProfile"})
  /\ initRead' = "-"
  /\ UNCHANGED <<store, phase, view, nearby, search, logout>>

\* lines 62-68 (and 55, 80 when it returns): loadAgentProfile after its token read
loadAgentProfile_afterToken ==
  /\ pcInit = "profTokGot"
  /\ IF HasToken(initRead)
     THEN pcInit' = "profReq" /\ Emit("profile:request", {"req:profile"})
     ELSE pcInit' = "teamTokCall"
          /\ Emit("profile:noToken", {"call:loadTeamLocation"})
  /\ initRead' = "-"
  /\ UNCHANGED <<store, phase, view, nearby, search, logout>>

\* lines 65-76, then 55 and 80: the profile request is answered
loadAgentProfile_response(o, fullName) ==
  /\ pcInit = "profReq"
  /\ IF o = "ok" /\ fullName # NoFullName
     THEN /\ agentName' = FirstWord(fullName)
          /\ EmitRes("profile:ok", o, {"set:agentName", "call:loadTeamLocation"})
     ELSE /\ UNCHANGED agentName
          /\ EmitRes(IF o = "ok" THEN "profile:ok" ELSE "profile:fail", o,
                     {"call:loadTeamLocation"})
  /\ pcInit' = "teamTokCall"
  /\ UNCHANGED <<store, phase, initRead, loading, teamLocation, radiusKm, lists,
                 searchTerm, searchLoading, nearby, search, logout>>

\* lines 80-86 (and 56 when it returns): loadTeamLocation after its token read
loadTeamLocation_afterToken ==
  /\ pcInit = "teamTokGot"
  /\ IF HasToken(initRead)
     THEN /\ pcInit' = "teamReq"
          /\ Emit("team:request", {"req:team"})
          /\ UNCHANGED nearby
     ELSE /\ CallLoadNearbyData
          /\ Emit("team:noToken", {"call:loadNearbyData"})
  /\ initRead' = "-"
  /\ UNCHANGED <<store, phase, view, search, logout>>

\* line 89: response.data.radius_km || 10
RadiusOf(body) == IF Truthy(body.radius_km) THEN body.radius_km ELSE DefaultRadius

\* lines 83-96, then 56: the team-location request is answered.  A null body is
\* stored by line 88 and line 89 then throws into the catch block, without a status.
loadTeamLocation_response(o, body) ==
  /\ pcInit = "teamReq"
  /\ IF o = "ok"
     THEN /\ teamLocation' = body
          /\ radiusKm' = IF body.null THEN radiusKm ELSE RadiusOf(body)
          /\ CallLoadNearbyData
          /\ UNCHANGED store
          /\ EmitRes("team:ok", o,
                     (IF body.null THEN {"set:teamLocation"}
                                   ELSE {"set:teamLocation", "set:radiusKm"})
                     \cup {"call:loadNearbyData"})
     ELSE IF IsStatus401(o)
     THEN /\ pcInit' = "teamClearCall"
          /\ EmitRes("team:fail", o, {"clearAuthData"})
          /\ UNCHANGED <<teamLocation, radiusKm, nearby, store>>
     ELSE /\ CallLoadNearbyData
          /\ EmitRes("team:fail", o, {"call:loadNearbyData"})
          /\ UNCHANGED <<teamLocation, radiusKm, store>>
  /\ UNCHANGED <<phase, initRead, loading, agentName, lists, searchTerm,
                 searchLoading, search, logout>>

\* line 93: the storage carries out clearAuthData
loadTeamLocation_cleared ==
  /\ pcInit = "teamClearCall"
  /\ clearAuthData
  /\ pcInit' = "teamCleared"
  /\ Emit("team:cleared", {})
  /\ UNCHANGED <<phase, initRead, view, nearby, search, logout>>

\* lines 94, then 56
loadTeamLocation_afterClear ==
  /\ pcInit = "teamCleared"
  /\ CallLoadNearbyData
  /\ Emit("team:afterClear", {"nav:login", "call:loadNearbyData"})
  /\ UNCHANGED <<store, phase, initRead, view, search, logout>>

\* ------------------------------------------------------ the rendered screen
\* lines 188-197: while loading, only the spinner is rendered
DashboardRendered == phase = "mounted" /\ ~loading

\* faulty variant: either coordinate 0 taken for an unset location
WarningBannerShown_Either ==
  teamLocation.null \/ teamLocation.latitude = 0 \/ teamLocation.longitude = 0

\* line 213
WarningBannerShown ==
  teamLocation.null \/ (teamLocation.latitude = 0 /\ teamLocation.longitude = 0)

\* line 250
SubtitleNotSet == ~(~teamLocation.null /\ teamLocation.latitude # 0)

\* lines 288-291, 320-323: the cards of a list
Displayed(list) == IF Len(list) = 0 THEN <<>> ELSE Slice(list, 0, SliceEnd)
DisplayedPanics  == Displayed(nearbyPanics)
DisplayedReports == Displayed(nearbyReports)

\* --------------------------------------------------------- handleSearch, 127-167
\* the terms the user can type
MaxTermLen == 2
Terms == UNION {[1..n -> Chars] : n \in 0..MaxTermLen}

\* line 267: onChangeText
setSearchTerm(t) ==
  /\ DashboardRendered
  /\ t # searchTerm
  /\ searchTerm' = t
  /\ Emit("type", {"set:searchTerm"})
  /\ UNCHANGED <<store, phase, pcInit, initRead, loading, agentName, teamLocation,
                 radiusKm, lists, searchLoading, nearby, search, logout>>

\* faulty variant: the term tested without trim()
IsBlank_NoTrim(term) == Len(term) = 0

\* line 128: !searchTerm.trim()
IsBlank(term) == Len(Trim(term)) = 0

\* lines 127-135; the button is disabled while searchLoading (line 270)
handleSearch ==
  /\ DashboardRendered
  /\ ~searchLoading
  /\ IF IsBlank(searchTerm)
     THEN /\ Emit("search:blank", {"alert:validation"})
          /\ UNCHANGED <<searchLoading, pcSearch, searchArg>>
     ELSE /\ searchLoading' = TRUE
          /\ pcSearch' = "tokCall"
          /\ searchArg' = searchTerm
          /\ Emit("search:start", {"set:searchLoading"})
  /\ UNCHANGED <<store, phase, pcInit, initRead, loading, agentName, teamLocation,
                 radiusKm, lists, searchTerm, nearby, searchRead, logout>>

\* line 135: the storage answers getAuthToken
handleSearch_read ==
  /\ pcSearch = "tokCall"
  /\ searchRead' = getAuthToken
  /\ pcSearch' = "tokGot"
  /\ Emit("search:read", {})
  /\ UNCHANGED <<store, phase, pcInit, initRead, view, nearby, searchArg, logout>>

\* faulty variant: the early return of line 138 skips the reset of searchLoading
handleSearch_afterToken_NoReset ==
  /\ pcSearch = "tokGot"
  /\ IF HasToken(searchRead)
     THEN /\ pcSearch' = "req"
          /\ Emit("search:request", {"req:search"})
     ELSE /\ pcSearch' = "idle"
          /\ Emit("search:noToken", {"nav:login"})
  /\ searchRead' = "-"
  /\ UNCHANGED <<store, phase, pcInit, initRead, loading, agentName, teamLocation,
                 radiusKm, lists, searchTerm, searchLoading, nearby, searchArg, logout>>

\* lines 136-148, 165
handleSearch_afterToken ==
  /\ pcSearch = "tokGot"
  /\ IF HasToken(searchRead)
     THEN /\ pcSearch' = "req"
          /\ Emit("search:request", {"req:search"})
          /\ UNCHANGED searchLoading
     ELSE /\ pcSearch' = "idle"
          /\ searchLoading' = FALSE
          /\ Emit("search:noToken", {"nav:login", "set:searchLoading"})
  /\ searchRead' = "-"
  /\ UNCHANGED <<store, phase, pcInit, initRead, loading, agentName, teamLocation,
                 radiusKm, lists, searchTerm, nearby, searchArg, logout>>

\* the response.data of search-user: null, or the user found
NullUser == [null |-> TRUE, user_id |-> Undef]
User(id) == [null |-> FALSE, user_id |-> id]
UserIds == {1, 2}
UserBodies == {NullUser} \cup {User(id) : id \in UserIds}

\* faulty variant: the payload coerced to a string instead of serialized
Stringify_Coerced(u) == IF u.null THEN <<"null">> ELSE <<"[object Object]">>

\* line 151: JSON.stringify(response.data), as the tokens of the text
Stringify(u) ==
  IF u.null THEN <<"null">>
  ELSE <<"{", "\"user_id\"", ":", ToString(u.user_id), "}">>

\* the detail of an error response: absent (or empty), or a text of the backend
NoDetail == ""
Details == {NoDetail, "User is not trackable"}
GenericNotFound == "User not found"

\* line 162: error.response?.data?.detail || 'User not found'; a request that got no
\* response has no detail
NotFoundMessage(o, detail) ==
  IF o # "timeout" /\ detail # NoDetail THEN detail ELSE GenericNotFound

\* lines 142-166: the search request is answered, with the body or the detail
handleSearch_response(o, body, detail) ==
  /\ pcSearch = "req"
  /\ IF o = "ok"
     THEN /\ pcSearch' = "idle"
          /\ searchLoading' = FALSE
          /\ ev' = [Ev("search:ok", -1, o, {"nav:track", "set:searchLoading"},
                        NullBody, NullBody)
                      EXCEPT !.body = body, !.param = Stringify(body)]
     ELSE IF IsStatus401(o)
     THEN /\ pcSearch' = "clearCall"
          /\ UNCHANGED searchLoading
          /\ ev' = [Ev("search:fail", -1, o, {"alert:expired", "clearAuthData"},
                        NullBody, NullBody)
                      EXCEPT !.detail = IF o = "timeout" THEN NoDetail ELSE detail]
     ELSE /\ pcSearch' = "idle"
          /\ searchLoading' = FALSE
          /\ ev' = [Ev("search:fail", -1, o, {"alert:notFound", "set:searchLoading"},
                        NullBody, NullBody)
                      EXCEPT !.detail = IF o = "timeout" THEN NoDetail ELSE detail,
                             !.msg = NotFoundMessage(o, detail)]
  /\ UNCHANGED <<store, phase, pcInit, initRead, loading, agentName, teamLocation,
                 radiusKm, lists, searchTerm, nearby, searchRead, searchArg, logout>>

\* line 159: the storage carries out clearAuthData
handleSearch_cleared ==
  /\ pcSearch = "clearCall"
  /\ clearAuthData
  /\ pcSearch' = "cleared"
  /\ Emit("search:cleared", {})
  /\ UNCHANGED <<phase, pcInit, initRead, view, nearby, searchRead, searchArg, logout>>

\* lines 160, 165
handleSearch_afterClear ==
  /\ pcSearch = "cleared"
  /\ pcSearch' = "idle"
  /\ searchLoading' = FALSE
  /\ Emit("search:afterClear", {"nav:login", "set:searchLoading"})
  /\ UNCHANGED <<store, phase, pcInit, initRead, loading, agentName, teamLocation,
                 radiusKm, lists, searchTerm, nearby, searchRead, searchArg, logout>>

\* --------------------------------------------------------- handleLogout, 169-186
\* faulty variant: the press clears the session without asking
handleLogout_NoPrompt ==
  /\ DashboardRendered
  /\ pcLogout = "idle"
  /\ pcLogout' = "clearCall"
  /\ Emit("logout:prompt", {"clearAuthData"})
  /\ UNCHANGED <<store, phase, pcInit, initRead, view, nearby, search>>

\* lines 169-185: the confirmation prompt is shown
handleLogout ==
  /\ DashboardRendered
  /\ pcLogout = "idle"
  /\ pcLogout' = "prompt"
  /\ Emit("logout:prompt", {"alert:logout"})
  /\ UNCHANGED <<store, phase, pcInit, initRead, view, nearby, search>>

\* line 174: Cancel
handleLogout_cancel ==
  /\ pcLogout = "prompt"
  /\ pcLogout' = "idle"
  /\ Emit("logout:cancel", {})
  /\ UNCHANGED <<store, phase, pcInit, initRead, view, nearby, search>>

\* lines 178-180: Logout pressed
handleLogout_confirm ==
  /\ pcLogout = "prompt"
  /\ pcLogout' = "clearCall"
  /\ Emit("logout:confirm", {"clearAuthData"})
  /\ UNCHANGED <<store, phase, pcInit, initRead, view, nearby, search>>

\* line 180: the storage carries out clearAuthData
handleLogout_cleared ==
  /\ pcLogout = "clearCall"
  /\ clearAuthData
  /\ pcLogout' = "cleared"
  /\ Emit("logout:cleared", {})
  /\ UNCHANGED <<phase, pcInit, initRead, view, nearby, search>>

\* line 181
handleLogout_afterClear ==
  /\ pcLogout = "cleared"
  /\ pcLogout' = "idle"
  /\ Emit("logout:afterClear", {"nav:login"})
  /\ UNCHANGED <<store, phase, pcInit, initRead, view, nearby, search>>

\* ------------------------------------------------------------ specification
\* the steps of initializeScreen and of the two loaders it runs first, with the
\* profile and team-location bodies drawn from FN and LB
InitChain(FN, LB) ==
  \/ Mount
  \/ initializeScreen_read
  \/ initializeScreen_afterToken
  \/ initializeScreen_afterMetadata
  \/ loadAgentProfile_afterToken
  \/ \E o \in Outcomes, n \in FN : loadAgentProfile_response(o, n)
  \/ loadTeamLocation_afterToken
  \/ \E o \in Outcomes, b \in LB : loadTeamLocation_response(o, b)
  \/ loadTeamLocation_cleared
  \/ loadTeamLocation_afterClear

\* the steps of the executions of loadNearbyData, with the bodies drawn from RB, PB
NearbyData(RB, PB) ==
  \/ \E i \in Insts : loadNearbyData_read(i)
  \/ \E i \in Insts : loadNearbyData_afterToken(i)
  \/ \E i \in Insts, w \in {"rep", "pan"}, o \in Outcomes : loadNearbyData_response(i, w, o)
  \/ \E i \in Insts, rb \in RB, pb \in PB : loadNearbyData_resolved(i, rb, pb)
  \/ \E i \in Insts : loadNearbyData_cleared(i)
  \/ \E i \in Insts : loadNearbyData_afterClear(i)

\* the interval, starting its executions in the slots S
Timer(S) == \E i \in S : Tick(i)

\* the steps of the search box, with the terms typed drawn from T, the users found
\* from UB and the details of the errors from DT
Searching(T, UB, DT) ==
  \/ \E t \in T : setSearchTerm(t)
  \/ handleSearch
  \/ handleSearch_read
  \/ handleSearch_afterToken
  \/ \E o \in Outcomes, b \in UB, d \in DT : handleSearch_response(o, b, d)
  \/ handleSearch_cleared
  \/ handleSearch_afterClear

\* the steps of the logout button
LoggingOut ==
  \/ handleLogout
  \/ handleLogout_cancel
  \/ handleLogout_confirm
  \/ handleLogout_cleared
  \/ handleLogout_afterClear

\* one body per endpoint and one term: what the specifications that are not about
\* that input draw it from
OneName   == {<<"a", " ", "a">>}
OneLoc    == {Loc(1, 1, 5)}
OneReport == {ArrBody(<<ReportAt(1)>>)}
OnePanic  == {ArrBody(<<PanicAt(1), PanicAt(2)>>)}
OneTerm   == {<<"a">>}
OneUser   == {User(1)}
OneDetail == {NoDetail}

\* every step of the screen, in every interleaving
Next ==
  \/ InitChain(OneName, OneLoc)
  \/ NearbyData(OneReport, OnePanic)
  \/ Timer(PollInsts)
  \/ Unmount
  \/ Searching(OneTerm, OneUser, OneDetail)
  \/ LoggingOut
Spec == Init /\ [][Next]_vars

\* the loaders over every body of the two nearby endpoints, with one execution of
\* the timer at a time beside initializeScreen's
NextLists ==
  \/ InitChain(OneName, OneLoc)
  \/ NearbyData(ReportBodies, PanicBodies)
  \/ Timer({1})
  \/ Unmount
SpecLists == Init /\ [][NextLists]_vars

\* initializeScreen over every profile and team-location body
NextLoc ==
  \/ InitChain(FullNames, LocBodies)
  \/ NearbyData(OneReport, OnePanic)
  \/ Unmount
SpecLoc == Init /\ [][NextLoc]_vars

\* the search box over every term, after initializeScreen
NextSearch ==
  \/ InitChain(OneName, OneLoc)
  \/ NearbyData(OneReport, OnePanic)
  \/ Unmount
  \/ Searching(Terms, UserBodies, Details)
SpecSearch == Init /\ [][NextSearch]_vars

\* the steps of execution i of loadNearbyData
NearbyStep(i, RB, PB) ==
  \/ loadNearbyData_read(i)
  \/ loadNearbyData_afterToken(i)
  \/ \E w \in {"rep", "pan"}, o \in Outcomes : loadNearbyData_response(i, w, o)
  \/ \E rb \in RB, pb \in PB : loadNearbyData_resolved(i, rb, pb)
  \/ loadNearbyData_cleared(i)
  \/ loadNearbyData_afterClear(i)

\* the screen's lifecycle: initializeScreen, the interval and the loaders
NextLife ==
  \/ InitChain(OneName, OneLoc)
  \/ NearbyData(OneReport, OnePanic)
  \/ Timer({1})
  \/ Unmount

\* the event loop runs every continuation that is ready, the storage answers every
\* call, and every request is answered or times out (timeout: 15000, lines 67, 85,
\* 108, 112): initializeScreen and each execution of loadNearbyData take their next
\* step.  Nothing obliges the screen to unmount.
SpecLife ==
  /\ Init /\ [][NextLife]_vars
  /\ WF_vars(InitChain(OneName, OneLoc))
  /\ \A i \in Insts : WF_vars(NearbyStep(i, OneReport, OnePanic))

\* the interval fires as long as it is set (line 25), and the backend, asked again
\* and again, eventually answers each of the two requests of a tick with success
SpecPoll ==
  /\ SpecLife
  /\ WF_vars(Timer({1}))
  /\ \A i \in PollInsts :
       /\ SF_vars(\E w \in {"rep", "pan"} : loadNearbyData_response(i, w, "ok"))
       /\ SF_vars(\E rb \in OneReport, pb \in OnePanic : loadNearbyData_resolved(i, rb, pb))

\* ================================================================== claims
RequestTags == {"req:profile", "req:team", "req:reports", "req:panics", "req:search"}
SetTags == {"set:loading", "set:agentName", "set:teamLocation", "set:radiusKm",
            "set:nearbyReports", "set:nearbyPanics", "set:searchLoading"}
NavTags == {"nav:login", "nav:track"}
LoaderFailures == {"profile:fail", "team:fail", "nearby:fail"}

\* C1: after the screen has unmounted, no step calls loadNearbyData.
\* (The cleanup of line 26 stops the timer only: initializeScreen, once past its role
\* check, still reaches line 56.)
C1_NoLoadAfterUnmount ==
  phase = "unmounted" => "call:loadNearbyData" \notin ev.fx

\* C2: once initializeScreen has refused the role (alert and redirect, lines 46-50),
\* no nearby-reports / nearby-panics request is issued, by a timer tick or otherwise.
C2_NoFetchAfterDenied ==
  pcInit = "denied" => ev.fx \cap {"req:reports", "req:panics"} = {}

\* C3: a loader (profile, team-location, nearby-data) that is answered 401 calls
\* clearAuthData (once) in its catch block, the redirect following it.
C3_Loader401Clears ==
  (ev.op \in LoaderFailures /\ ev.res = "401") => "clearAuthData" \in ev.fx

\* C4: with no token stored at mount, initializeScreen ends redirected to /auth/login
\* and no request of any kind is ever issued or in flight: every loader and every
\* timer tick returns at its token check.
C4_NoTokenNoRequest ==
  tokenAtMount = NoToken =>
    /\ ev.fx \cap RequestTags = {}
    /\ pcInit \in {"idle", "tokCall", "tokGot", "redirected"}
    /\ \A i \in Insts : nearby[i].pc \in {"idle", "tokCall", "tokGot"}
    /\ pcSearch \notin {"req", "clearCall", "cleared"}
    /\ loading

\* C4 witness: after the redirect, a timer tick read no token and returned
C4_Witness ==
  /\ tokenAtMount = NoToken
  /\ pcInit = "redirected"
  /\ ev.op = "nearby:noToken"
  /\ ev.who \in PollInsts

\* C5: after the screen has unmounted, no step calls a state setter.
C5_NoSetAfterUnmount ==
  phase = "unmounted" => ev.fx \cap SetTags = {}

\* C6: every step of an execution of loadNearbyData leaves both lists as they were,
\* except the step in which both requests have succeeded, which replaces both lists
\* by that execution's two responses (`|| []` applied).
C6_AllOrNothing ==
  [][ev'.who \in Insts =>
       IF ev'.op = "nearby:ok"
       THEN /\ nearbyReports' = OrEmpty(ev'.reports)
            /\ nearbyPanics' = OrEmpty(ev'.panics)
       ELSE /\ nearbyReports' = nearbyReports
            /\ nearbyPanics' = nearbyPanics]_vars

\* C6 witness: an execution failed (here with 401) while both lists held fetched items
C6_Witness ==
  /\ ev.op = "nearby:fail"
  /\ ev.res = "401"
  /\ Len(nearbyReports) > 0
  /\ Len(nearbyPanics) > 0

\* a term that is empty or made of whitespace only
AllWhitespace(term) == \A k \in 1..Len(term) : term[k] \in Whitespace

\* C7: a press of the search button (the step search:blank or search:start) with an empty or
\* whitespace-only term shows the validation alert, issues no request and leaves no
\* continuation that could, and leaves searchLoading and the stored session unchanged.
C7_BlankSearch ==
  [][(ev'.op \in {"search:blank", "search:start"} /\ AllWhitespace(searchTerm)) =>
       /\ "alert:validation" \in ev'.fx
       /\ ev'.fx \cap (RequestTags \cup NavTags \cup {"clearAuthData"}) = {}
       /\ pcSearch' = "idle"
       /\ searchLoading' = searchLoading
       /\ storedToken' = storedToken
       /\ storedRole' = storedRole]_vars

\* C7 witness: the button was pressed on a non-empty term of whitespace only
C7_Witness ==
  /\ ev.op = "search:blank"
  /\ Len(searchTerm) = MaxTermLen

\* C8: a loader step that fails without a 401 (error status, or no response) does not
\* clear the session, does not navigate, and leaves the view state that loader writes
\* as it was.
C8_SoftFail ==
  [][(ev'.op \in LoaderFailures /\ ev'.res \in Failures \ {"401"}) =>
       /\ storedToken' = storedToken
       /\ storedRole' = storedRole
       /\ ev'.fx \cap (NavTags \cup {"clearAuthData"}) = {}
       /\ (ev'.op = "profile:fail" => agentName' = agentName)
       /\ (ev'.op = "team:fail" => teamLocation' = teamLocation /\ radiusKm' = radiusKm)
       /\ (ev'.op = "nearby:fail" => nearbyReports' = nearbyReports
                                     /\ nearbyPanics' = nearbyPanics)]_vars

\* C8 witness: a nearby-data execution timed out while the session and fetched lists
\* were in place
C8_Witness ==
  /\ ev.op = "nearby:fail"
  /\ ev.res = "timeout"
  /\ storedToken = Tok
  /\ Len(nearbyPanics) > 0

\* C9: with the dashboard rendered (loading false) and a team location loaded, the
\* warning banner is shown exactly when its latitude and its longitude are both 0.
C9_BannerIffUnset ==
  (~loading /\ ~teamLocation.null) =>
    (WarningBannerShown <=> (teamLocation.latitude = 0 /\ teamLocation.longitude = 0))

\* C9 witness: a location with latitude 0 and another longitude, banner hidden
C9_Witness ==
  /\ ~loading
  /\ ~teamLocation.null
  /\ teamLocation.latitude = 0
  /\ teamLocation.longitude = 1
  /\ ~WarningBannerShown

\* the first min(n, Len(s)) items of s, in order
IsPrefixOfLen(d, s, n) ==
  /\ Len(d) = Min(n, Len(s))
  /\ \A k \in 1..Len(d) : d[k] = s[k]

\* C10: each list shows the first min(3, n) items of the stored list of length n, in
\* order, never more than 3; and the stored list is the one the last successful
\* fetch answered.
C10_FirstThree ==
  ~loading =>
    /\ IsPrefixOfLen(DisplayedPanics, nearbyPanics, 3)
    /\ IsPrefixOfLen(DisplayedReports, nearbyReports, 3)
    /\ Len(DisplayedPanics) <= 3
    /\ Len(DisplayedReports) <= 3
    /\ (ev.op = "nearby:ok" =>
          /\ IsPrefixOfLen(DisplayedPanics, OrEmpty(ev.panics), 3)
          /\ IsPrefixOfLen(DisplayedReports, OrEmpty(ev.reports), 3))

\* C10 witness: a fetch answered more than 3 panics and 3 are shown
C10_Witness ==
  /\ ~loading
  /\ ev.op = "nearby:ok"
  /\ Len(OrEmpty(ev.panics)) > 3
  /\ Len(DisplayedPanics) = 3
  /\ Len(nearbyReports) = 2
  /\ Len(DisplayedReports) = 2

\* C11: searchLoading is true while a search is under way (its token read, its request
\* in flight, its session clear) and false once handleSearch has ended, whatever the
\* outcome; and the button starts a search only when none is under way, so that at
\* most one search-user request is in flight.
C11_SearchLoading ==
  [][/\ (pcSearch' # "idle" => searchLoading')
     /\ (pcSearch' = "idle" => ~searchLoading')
     /\ (ev'.op = "search:start" => pcSearch = "idle")
     /\ ("req:search" \in ev'.fx => pcSearch # "req")]_vars

\* C11 witness: a search ended at its token check (no token) and searchLoading is false
C11_Witness ==
  /\ ev.op = "search:noToken"
  /\ pcSearch = "idle"
  /\ ~searchLoading

LogoutOps == {"logout:prompt", "logout:cancel", "logout:confirm", "logout:cleared",
              "logout:afterClear"}

\* C13: no step of handleLogout issues a request or moves a loader or a search; the
\* session is cleared only after the user chose Logout in the prompt, and the
\* navigation to /auth/login follows that clear; showing the prompt and choosing
\* Cancel leave the stored session and all view state as they were.
C13_Logout ==
  [][ev'.op \in LogoutOps =>
       /\ ev'.fx \cap RequestTags = {}
       /\ UNCHANGED <<pcInit, initRead, nearby, search>>
       /\ ("clearAuthData" \in ev'.fx => ev'.op = "logout:confirm" /\ pcLogout = "prompt")
       /\ (<<storedToken, storedRole>>' # <<storedToken, storedRole>> =>
             ev'.op = "logout:cleared" /\ pcLogout = "clearCall")
       /\ (ev'.fx \cap NavTags # {} =>
             ev'.op = "logout:afterClear" /\ pcLogout = "cleared" /\ storedToken = NoToken)
       /\ (ev'.op \in {"logout:prompt", "logout:cancel"} =>
             /\ UNCHANGED <<storedToken, storedRole, view>>
             /\ ev'.fx \cap (NavTags \cup SetTags \cup {"clearAuthData"}) = {})
       /\ (ev'.op = "logout:cancel" => pcLogout' = "idle")]_vars

\* C13 witness: Cancel was chosen with the session and the fetched lists in place
C13_Witness ==
  /\ ev.op = "logout:cancel"
  /\ storedToken = Tok
  /\ Len(nearbyPanics) > 0

\* C15: the steps of initializeScreen come in order: the metadata is read (role check)
\* only by the step that found a token; loadAgentProfile is called only by the step
\* that read the role "security", and the profile request issued only by it;
\* loadTeamLocation is called only by the step that ends loadAgentProfile (its return
\* without a token, or the answer to its request), and the team request issued only by
\* it; initializeScreen's loadNearbyData is called only by the step that ends
\* loadTeamLocation (return without a token, answer, or the redirect after a 401),
\* and its execution runs only while initializeScreen awaits it.
C15_InitOrder ==
  [][/\ ((pcInit' = "metaCall" /\ pcInit # "metaCall") => pcInit = "tokGot" /\ initRead = Tok)
     /\ ("call:loadAgentProfile" \in ev'.fx => pcInit = "metaGot" /\ initRead = "security")
     /\ ("req:profile" \in ev'.fx => pcInit = "profTokGot")
     /\ (pcInit' \in {"profTokCall", "profTokGot", "profReq"} =>
           pcInit \in {"metaGot", "profTokCall", "profTokGot", "profReq"})
     /\ ("call:loadTeamLocation" \in ev'.fx => pcInit \in {"profTokGot", "profReq"})
     /\ ("req:team" \in ev'.fx => pcInit = "teamTokGot")
     /\ (pcInit' \in {"teamTokCall", "teamTokGot", "teamReq", "teamClearCall", "teamCleared"} =>
           pcInit \in {"profTokGot", "profReq", "teamTokCall", "teamTokGot", "teamReq",
                       "teamClearCall", "teamCleared"})
     /\ (("call:loadNearbyData" \in ev'.fx /\ ev'.op # "tick") =>
           /\ pcInit \in {"teamTokGot", "teamReq", "teamCleared"}
           /\ nearby[InitInst].pc = "idle"
           /\ nearby'[InitInst].pc = "tokCall")
     /\ (nearby'[InitInst].pc # "idle" => pcInit' = "nearby")
     /\ (ev'.who = InitInst => pcInit = "nearby")]_vars

\* C15 witness: loadTeamLocation ended by the redirect after a 401 and
\* initializeScreen's loadNearbyData was called
C15_Witness ==
  /\ ev.op = "team:afterClear"
  /\ pcInit = "nearby"
  /\ nearby[InitInst].pc = "tokCall"

\* C19: with the dashboard rendered, the warning banner is shown exactly when the
\* Team Location card's subtitle reads "Not Set", whatever teamLocation holds.
\* (Line 213 tests latitude and longitude, line 250 the latitude only.)
C19_BannerIffNotSet ==
  ~loading => (WarningBannerShown <=> SubtitleNotSet)

\* JSON.parse of the parameter, as the tracking screen reads it back
ParseUser(param) ==
  IF param = <<"null">> THEN NullUser
  ELSE IF Len(param) = 5 /\ param[1] = "{" /\ param[2] = "\"user_id\"" /\ param[3] = ":"
          /\ param[5] = "}" /\ \E id \in UserIds : ToString(id) = param[4]
  THEN User(CHOOSE id \in UserIds : ToString(id) = param[4])
  ELSE [null |-> FALSE, user_id |-> Undef]

\* C12: the answer to a search-user request has exactly one of three outcomes.
\* Success: router.push to the tracking screen with a parameter from which the response
\* body reads back, the search over, no alert, the session untouched.  401: the Session
\* Expired alert and one call of clearAuthData, no Not Found alert; the storage then
\* clears the session and the step after it navigates to /auth/login and ends the
\* search.  Any other failure: the Not Found alert with the detail of the response if
\* it has one and "User not found" otherwise, the search over, no clear, no navigation.
C12_SearchOutcomes ==
  [][/\ (ev'.op \in {"search:ok", "search:fail"} =>
          /\ pcSearch = "req"
          /\ UNCHANGED <<storedToken, storedRole>>
          /\ IF ev'.res = "ok"
             THEN /\ ev'.op = "search:ok"
                  /\ ev'.fx = {"nav:track", "set:searchLoading"}
                  /\ ParseUser(ev'.param) = ev'.body
                  /\ pcSearch' = "idle"
             ELSE IF ev'.res = "401"
             THEN /\ ev'.fx = {"alert:expired", "clearAuthData"}
                  /\ pcSearch' = "clearCall"
             ELSE /\ ev'.fx = {"alert:notFound", "set:searchLoading"}
                  /\ ev'.msg = (IF ev'.detail # "" THEN ev'.detail ELSE "User not found")
                  /\ pcSearch' = "idle")
     /\ (pcSearch = "clearCall" /\ pcSearch' # pcSearch =>
          /\ ev'.op = "search:cleared"
          /\ ev'.fx = {}
          /\ storedToken' = NoToken
          /\ pcSearch' = "cleared")
     /\ (pcSearch = "cleared" /\ pcSearch' # pcSearch =>
          /\ ev'.op = "search:afterClear"
          /\ ev'.fx = {"nav:login", "set:searchLoading"}
          /\ pcSearch' = "idle")]_vars

\* C12 witness: a search was answered with an error carrying a detail, shown in the
\* Not Found alert
C12_Witness ==
  /\ ev.op = "search:fail"
  /\ ev.res = "500"
  /\ ev.detail # NoDetail
  /\ ev.msg = ev.detail

\* C18: once this screen has cleared the stored session (a token was stored at mount
\* and the storage holds none any more), no step issues a backend request.
\* (A loader or a search checks the token it read, lines 81, 102, 136: one that read
\* it before the clear still issues its request after it.)
C18_NoRequestAfterClear ==
  (tokenAtMount = Tok /\ storedToken = NoToken) => ev.fx \cap RequestTags = {}

\* C16: an execution of loadNearbyData that a later-called execution has overtaken
\* (the later one has set the lists while the earlier one was still running) does not
\* change the lists when its own two requests succeed: the lists stay those of the
\* later-called execution.
\* (Lines 116-117 set the lists in every execution whose Promise.all resolves, in the
\* order the responses arrive.)
C16_LaterStartedWins ==
  [][(ev'.op = "nearby:ok" /\ nearby[ev'.who].overtaken) =>
       /\ nearbyReports' = nearbyReports
       /\ nearbyPanics' = nearbyPanics]_vars

\* C14: failures do not suppress polling.  An execution of loadNearbyData that a tick
\* called issues both requests exactly when the token it read is a token, whatever
\* earlier executions ended with; and if the screen stays mounted with the token
\* stored, and the backend eventually answers both requests with success, then again
\* and again a tick's execution replaces the lists by the responses it got.
C14_PollingGoesOn ==
  /\ [][(ev'.who \in PollInsts /\ ev'.op \in {"nearby:request", "nearby:noToken"}) =>
          (ev'.op = "nearby:request" <=> nearby[ev'.who].tok = Tok)]_vars
  /\ ([](storedToken = Tok /\ phase # "unmounted") =>
        []<>(/\ ev.op = "nearby:ok"
             /\ ev.who \in PollInsts
             /\ nearbyReports = OrEmpty(ev.reports)
             /\ nearbyPanics = OrEmpty(ev.panics)))

\* C14 witness: initializeScreen's fetch failed without a 401 (it is over, the lists
\* are still empty, the token still stored) and a tick's execution issues both requests
C14_Witness ==
  /\ ev.op = "nearby:request"
  /\ ev.who \in PollInsts
  /\ pcInit = "done"
  /\ nearbyReports = <<>>
  /\ storedToken = Tok
  /\ phase = "mounted"

\* the guard of initializeScreen (lines 33-51) has let it through / has stopped it
GuardPassed == pcInit \in {"profTokCall", "profTokGot", "profReq", "teamTokCall",
                           "teamTokGot", "teamReq", "teamClearCall", "teamCleared",
                           "nearby", "done"}
GuardFailed == pcInit \in {"redirected", "denied"}

\* C17: once mounted, the guard of initializeScreen comes to a verdict.  If it passes
\* (it read a token and then the role "security"), loading eventually becomes false,
\* whatever the three loaders are answered, a 401 that clears the session included.
\* If it fails, loading is never set to false; and it fails only when the storage does
\* not hold (any more) a token with the role "security".
C17_LoadingEnds ==
  /\ [](GuardFailed => loading /\ ~(storedToken = Tok /\ storedRole = "security"))
  /\ [][GuardFailed => GuardFailed']_vars
  /\ (pcInit = "tokCall" ~> (GuardPassed \/ GuardFailed))
  /\ (GuardPassed ~> ~loading)

\* C17 witness: loadTeamLocation was answered 401 and cleared the session,
\* loadNearbyData then returned at its token check, and loading is false
C17_Witness ==
  /\ ev.op = "nearby:noToken"
  /\ ev.who = InitInst
  /\ tokenAtMount = Tok
  /\ storedToken = NoToken
  /\ pcInit = "done"
  /\ ~loading

====
